---- MODULE Spec2Model ----
(***************************************************************************)
(* The checkpoint store of src/src/utils/checkpoint_manager.py             *)
(* (class CheckpointManager): the live checkpoint directory, the backup    *)
(* directory, the registry in memory and on disk, and the operations       *)
(* save_checkpoint, load_checkpoint, rollback_to_checkpoint,               *)
(* prune_old_checkpoints, verify_all_checkpoints and                       *)
(* get_chain_of_checkpoints.                                               *)
(*                                                                         *)
(* Conventions of the model                                                *)
(*   - Python's None is the empty sequence; a present value x is <<x>>.    *)
(*   - A stage name is the sequence of its '_'-separated tokens, so        *)
(*     "test_stage" is <<"test", "stage">>.                                *)
(*   - A checkpoint file name <stage>_<YYYYMMDD_HHMMSS>.json is the record *)
(*     [stage, sec]: the tokens before the time stamp and the wall-clock   *)
(*     second of its creation.                                             *)
(*   - datetime.now() has microsecond resolution: every reading takes a    *)
(*     fresh value of the counter tick, whereas the second sec advances    *)
(*     only with the action Tick.  isoformat() keeps the order of time, so *)
(*     a timestamp is the pair <<sec, tick>> ordered lexicographically.    *)
(*   - sha256 is taken to be collision free: a digest is modelled by the   *)
(*     value that is hashed.                                               *)
(***************************************************************************)
EXTENDS Integers, Sequences, FiniteSets, TLC

VARIABLES
    stages,     \* the stage names the pipeline driver uses in this run
    sec,        \* wall clock, seconds
    tick,       \* wall clock, sub-second reading counter
    live,       \* checkpoint_dir/*.json except the registry: name -> file
    backup,     \* backup_dir: [prefix, name] -> file
    registry,   \* self.registry: id -> [file, stage, timestamp]
    regDisk,    \* checkpoint_registry.json
    pc,         \* position of the driver inside the running operation
    cur,        \* locals of the running operation
    lastOp,     \* the operation called last and its arguments
    ret,        \* what the last finished operation returned
    saved,      \* history: the successful save_checkpoint calls, in order
    snap,       \* history: registry, live and backup when lastOp began
    tampers,    \* number of faults so far: modified files and failed writes
    savesOnly,  \* history: every call so far was a successful save_checkpoint
    second      \* a second CheckpointManager over the same directory

vars == <<stages, sec, tick, live, backup, registry, regDisk, pc, cur,
          lastOp, ret, saved, snap, tampers, savesOnly, second>>

----------------------------------------------------------------------------
(* Bounds *)

MaxTick == 8
MaxSec == 1
MaxTampers == 1
RecursionLimit == 3

----------------------------------------------------------------------------
(* Values *)

NoneVal == <<>>
Some(x) == <<x>>

\* the stage names of a run: "test" and "test_stage", or the single "None"
StageSets == { {<<"test">>, <<"test", "stage">>}, {<<"None">>} }

\* payloads handed to save_checkpoint: a list and a tuple
ListOne == [kind |-> "list", n |-> 1]
TupleTwo == [kind |-> "tuple", n |-> 2]
TamperedData == [kind |-> "list", n |-> 0]

\* (data, metadata) arguments of save_checkpoint; metadata "None" is omitted
SaveInputs == { [data |-> ListOne, metadata |-> "None"],
                [data |-> TupleTwo, metadata |-> "rows"] }

\* json.dump writes a tuple as an array and json.load reads an array back
\* as a list; lists are written and read unchanged
JsonRoundTrip(d) == [d EXCEPT !.kind = "list"]

\* metadata or {}
MetadataOrEmpty(m) == IF m = "None" THEN "{}" ELSE m

\* str.startswith on token sequences
IsPrefix(p, s) == Len(p) <= Len(s) /\ SubSeq(s, 1, Len(p)) = p

\* lexicographic order of isoformat() strings
TsGreater(a, b) == a[1] > b[1] \/ (a[1] = b[1] /\ a[2] > b[2])

----------------------------------------------------------------------------
(* Pure helpers of CheckpointManager *)

\* _generate_checkpoint_id: sha256(stage + timestamp + str(hash(str(data))))
GenerateCheckpointId(stage, timestamp, data) ==
    [stage |-> stage, timestamp |-> timestamp, data |-> data]

\* _calculate_checksum: sha256(json.dumps(record without checksum, sort_keys))
CalculateChecksum(c) ==
    [stage |-> c.stage, data |-> JsonRoundTrip(c.data), metadata |-> c.metadata,
     timestamp |-> c.timestamp, previous_checkpoint |-> c.previous_checkpoint,
     checkpoint_id |-> c.checkpoint_id]

\* a file whose content json.load rejects (truncated or overwritten)
Garbage ==
    LET c == [stage |-> <<>>, data |-> TamperedData, metadata |-> "",
              timestamp |-> <<0, 0>>, previous_checkpoint |-> NoneVal,
              checkpoint_id |-> GenerateCheckpointId(<<>>, <<0, 0>>, TamperedData)]
    IN [parsable |-> FALSE, stage |-> c.stage, data |-> c.data,
        metadata |-> c.metadata, timestamp |-> c.timestamp,
        previous_checkpoint |-> c.previous_checkpoint,
        checkpoint_id |-> c.checkpoint_id, checksum |-> CalculateChecksum(c)]

\* the max(..., key=timestamp) entry among the ids in S (S non-empty)
MaxByTimestamp(reg, S) ==
    CHOOSE i \in S : \A j \in S : ~TsGreater(reg[j].timestamp, reg[i].timestamp)

\* get_latest_checkpoint_id without the filter of line 88 and with line 92
\* returning the key of the newest entry: the newest id of any stage
GetLatestCheckpointIdAnyStage(reg, stage) ==
    IF DOMAIN reg = {} THEN [raised |-> FALSE, ret |-> NoneVal]
    ELSE [raised |-> FALSE, ret |-> Some(MaxByTimestamp(reg, DOMAIN reg))]

\* get_latest_checkpoint_id(stage): None when no entry is selected; otherwise
\* line 92 subscripts the newest entry with 'checkpoint_id', a key that the
\* entries _update_registry builds (file, stage, timestamp) do not have, and
\* KeyError is raised
GetLatestCheckpointId(reg, stage) ==
    LET checkpoints == {i \in DOMAIN reg : stage = NoneVal \/ reg[i].stage = stage[1]}
    IN [raised |-> checkpoints # {}, ret |-> NoneVal]

\* _find_checkpoint(stage, checkpoint_id)
FindCheckpoint(reg, stage, id) ==
    LET S == {i \in DOMAIN reg : stage # NoneVal /\ reg[i].stage = stage[1]}
    IN IF id # NoneVal /\ id[1] \in DOMAIN reg THEN Some(reg[id[1]].file)
       ELSE IF S # {} THEN Some(reg[MaxByTimestamp(reg, S)].file)
       ELSE NoneVal

\* the stage as the f-string of a glob pattern prints it: None prints "None"
FormatStage(stage) == IF stage = NoneVal THEN <<"None">> ELSE stage[1]

\* the file with the greatest st_mtime among the names N of directory dir
MaxByMtime(dir, N) == CHOOSE f \in N : \A g \in N : dir[g].mtime <= dir[f].mtime

\* checkpoint_dir.glob(f"{stage}_*.json")
GlobLive(lv, stage) == {f \in DOMAIN lv : IsPrefix(FormatStage(stage), f.stage)}

\* backup_dir.glob(f"backup_{stage}_*.json")
GlobBackup(bk, stage) ==
    {b \in DOMAIN bk : b.prefix = "backup" /\ IsPrefix(FormatStage(stage), b.name.stage)}

\* _backup_previous_checkpoint(stage): the backup directory afterwards
BackupPreviousCheckpoint(lv, bk, stage) ==
    LET previous_files == GlobLive(lv, stage)
        latest_file == MaxByMtime(lv, previous_files)
    IN IF previous_files = {} THEN bk
       ELSE ([prefix |-> "backup", name |-> latest_file] :> lv[latest_file]) @@ bk

\* latest_backup.name[6:]: "backup_" has seven characters, so the slice keeps
\* the underscore and backup_<name> is restored under the name _<name>, whose
\* first '_'-separated token is empty
RestoreName(name) == [stage |-> <<"">> \o name.stage, sec |-> name.sec]

\* _restore_from_backup(stage): the restored path and the live directory afterwards
RestoreFromBackup(lv, bk, stage) ==
    LET backup_files == GlobBackup(bk, stage)
        latest_backup == MaxByMtime(bk, backup_files)
        restore_file == RestoreName(latest_backup.name)
    IN IF backup_files = {} THEN [path |-> NoneVal, live |-> lv]
       ELSE [path |-> Some(restore_file),
             live |-> (restore_file :> bk[latest_backup]) @@ lv]

\* lines 64-75 of load_checkpoint without the comparison of line 71
ReadUnverified(lv, f) ==
    /\ f \in DOMAIN lv
    /\ lv[f].doc.parsable

\* lines 64-75 of load_checkpoint: the file opens, parses and its stored
\* checksum equals the recomputed one
ReadVerified(lv, f) ==
    /\ f \in DOMAIN lv
    /\ lv[f].doc.parsable
    /\ lv[f].doc.checksum = CalculateChecksum(lv[f].doc)

\* load_checkpoint that, when the registry resolves nothing, falls back to
\* the newest file that checkpoint_dir.glob(f"{stage}_*.json") finds
RECURSIVE LoadCheckpointScan(_, _, _, _, _, _)
LoadCheckpointScan(lv, bk, reg, stage, id, d) ==
    LET found == FindCheckpoint(reg, stage, id)
        scanned == IF stage # NoneVal /\ GlobLive(lv, stage) # {}
                   THEN Some(MaxByMtime(lv, GlobLive(lv, stage)))
                   ELSE NoneVal
        f == IF found # NoneVal THEN found ELSE scanned
        restored == RestoreFromBackup(lv, bk, stage)
        retry == LoadCheckpointScan(restored.live, bk, reg, stage, NoneVal, d + 1)
    IN IF d > RecursionLimit
       THEN [raised |-> TRUE, ret |-> NoneVal, live |-> lv, reads |-> 0, restores |-> 0]
       ELSE IF f = NoneVal
       THEN [raised |-> FALSE, ret |-> NoneVal, live |-> lv, reads |-> 0, restores |-> 0]
       ELSE IF ReadVerified(lv, f[1])
       THEN [raised |-> FALSE, ret |-> Some(lv[f[1]].doc), live |-> lv,
             reads |-> 1, restores |-> 0]
       ELSE IF restored.path = NoneVal
       THEN [raised |-> FALSE, ret |-> NoneVal, live |-> lv, reads |-> 1, restores |-> 0]
       ELSE [retry EXCEPT !.reads = @ + 1, !.restores = @ + 1]

\* load_checkpoint(stage, checkpoint_id) at recursion depth d: the value
\* returned (or raised = TRUE for RecursionError), the live directory
\* afterwards, and the numbers of file reads and of restores performed
RECURSIVE LoadCheckpoint(_, _, _, _, _, _)
LoadCheckpoint(lv, bk, reg, stage, id, d) ==
    LET f == FindCheckpoint(reg, stage, id)
        restored == RestoreFromBackup(lv, bk, stage)
        retry == LoadCheckpoint(restored.live, bk, reg, stage, NoneVal, d + 1)
    IN IF d > RecursionLimit
       THEN [raised |-> TRUE, ret |-> NoneVal, live |-> lv, reads |-> 0, restores |-> 0]
       ELSE IF f = NoneVal
       THEN [raised |-> FALSE, ret |-> NoneVal, live |-> lv, reads |-> 0, restores |-> 0]
       ELSE IF ReadVerified(lv, f[1])
       THEN [raised |-> FALSE, ret |-> Some(lv[f[1]].doc), live |-> lv,
             reads |-> 1, restores |-> 0]
       ELSE IF restored.path = NoneVal
       THEN [raised |-> FALSE, ret |-> NoneVal, live |-> lv, reads |-> 1, restores |-> 0]
       ELSE [retry EXCEPT !.reads = @ + 1, !.restores = @ + 1]

\* get_chain_of_checkpoints, lines 131-137: the loop from current_id with
\* the list built so far; diverges when the loop comes back to an id it has
\* already loaded, from where it repeats forever
RECURSIVE ChainFrom(_, _, _, _, _, _)
ChainFrom(lv, bk, reg, current_id, stage_checkpoints, seen) ==
    LET r == LoadCheckpoint(lv, bk, reg, NoneVal, current_id, 1)
    IN IF current_id = NoneVal
       THEN [raised |-> FALSE, chain |-> stage_checkpoints, live |-> lv,
             diverges |-> FALSE]
       ELSE IF current_id[1] \in seen
       THEN [raised |-> FALSE, chain |-> stage_checkpoints, live |-> lv,
             diverges |-> TRUE]
       ELSE IF r.raised
       THEN [raised |-> TRUE, chain |-> stage_checkpoints, live |-> r.live,
             diverges |-> FALSE]
       ELSE IF r.ret = NoneVal
       THEN [raised |-> FALSE, chain |-> stage_checkpoints, live |-> r.live,
             diverges |-> FALSE]
       ELSE ChainFrom(r.live, bk, reg, r.ret[1].previous_checkpoint,
                      <<r.ret[1]>> \o stage_checkpoints, seen \cup {current_id[1]})

\* get_chain_of_checkpoints(stage): the KeyError of line 129 leaves the method
GetChainOfCheckpoints(lv, bk, reg, stage) ==
    LET latest == GetLatestCheckpointId(reg, Some(stage))
    IN IF latest.raised
       THEN [raised |-> TRUE, chain |-> <<>>, live |-> lv, diverges |-> FALSE]
       ELSE ChainFrom(lv, bk, reg, latest.ret, <<>>, {})

\* get_stage_status, lines 180-184: chain_complete
ChainComplete(checkpoints) ==
    \A i \in 2..Len(checkpoints) :
        checkpoints[i].previous_checkpoint = Some(checkpoints[i - 1].checkpoint_id)

----------------------------------------------------------------------------
(* The registry file checkpoint_registry.json *)

\* the file before the first _save_registry
AbsentFile == [state |-> "absent", entries |-> <<>>]

\* the file after open(..., 'w') truncated it and before json.dump finished
TornFile == [state |-> "torn", entries |-> <<>>]

\* _save_registry: the file holds the registry
SaveRegistry(reg) == [state |-> "ok", entries |-> reg]

\* _load_registry: {} when the file is absent or json.load raises
LoadRegistry(file) == IF file.state = "ok" THEN file.entries ELSE <<>>

----------------------------------------------------------------------------
(* Initial state: CheckpointManager(base_dir) on an empty directory *)

Idle == pc = "idle"

\* history: the stored state at the start of a multi-step operation
Snapshot == [registry |-> registry, live |-> live, backup |-> backup,
             regDisk |-> regDisk]

\* the second CheckpointManager before its constructor has run: pc, self.registry,
\* the locals of its running save_checkpoint, what its last call returned,
\* and history: its last successful save and the registry file as its
\* running save_checkpoint began
NotConstructed ==
    [pc |-> "none", registry |-> <<>>, cur |-> NoneVal, ret |-> NoneVal,
     last |-> NoneVal, before |-> <<>>]

Init ==
    /\ stages \in StageSets
    /\ sec = 0
    /\ tick = 0
    /\ live = <<>>
    /\ backup = <<>>
    /\ registry = <<>>
    /\ regDisk = AbsentFile
    /\ pc = "idle"
    /\ cur = NoneVal
    /\ lastOp = [op |-> "init"]
    /\ ret = NoneVal
    /\ saved = <<>>
    /\ snap = NoneVal
    /\ tampers = 0
    /\ savesOnly = TRUE
    /\ second = NotConstructed

\* the wall clock passes into the next second
Tick ==
    /\ Idle
    /\ sec < MaxSec
    /\ sec' = sec + 1
    /\ UNCHANGED <<stages, tick, live, backup, registry, regDisk, pc, cur,
                   lastOp, ret, saved, snap, tampers,
                   savesOnly>>
    /\ UNCHANGED second

----------------------------------------------------------------------------
(* save_checkpoint(stage, data, metadata) *)

\* lines 27-43 with the checksum of line 40 taken before line 37 has added
\* the checkpoint_id to the record
NewCheckpointChecksumFirst(stage, in, now, reg) ==
    LET c == [stage |-> stage, data |-> in.data,
              metadata |-> MetadataOrEmpty(in.metadata),
              timestamp |-> now,
              previous_checkpoint |-> GetLatestCheckpointId(reg, Some(stage)).ret,
              checkpoint_id |-> GenerateCheckpointId(stage, now, in.data)]
    IN [checkpoint |-> c,
        checksum |-> CalculateChecksum(
            [c EXCEPT !.checkpoint_id = GenerateCheckpointId(<<>>, <<0, 0>>, in.data)]),
        checkpoint_file |-> [stage |-> stage, sec |-> now[1]]]

\* lines 27-43: the record, its id, its checksum and the file name
NewCheckpoint(stage, in, now, reg) ==
    LET c == [stage |-> stage, data |-> in.data,
              metadata |-> MetadataOrEmpty(in.metadata),
              timestamp |-> now,
              previous_checkpoint |-> GetLatestCheckpointId(reg, Some(stage)).ret,
              checkpoint_id |-> GenerateCheckpointId(stage, now, in.data)]
    IN [checkpoint |-> c, checksum |-> CalculateChecksum(c),
        checkpoint_file |-> [stage |-> stage, sec |-> now[1]]]

\* json.dump(checkpoint, f): the document that reaches the file
JsonDump(c, checksum) ==
    [parsable |-> TRUE, stage |-> c.stage, data |-> JsonRoundTrip(c.data),
     metadata |-> c.metadata, timestamp |-> c.timestamp,
     previous_checkpoint |-> c.previous_checkpoint,
     checkpoint_id |-> c.checkpoint_id, checksum |-> checksum]

\* lines 27-43; the KeyError of get_latest_checkpoint_id (line 32) ends the
\* call before anything is stored: the clock reading of line 31 is dropped
SaveBegin(stage, in) ==
    /\ Idle
    /\ tick + 3 <= MaxTick
    /\ lastOp' = [op |-> "save", stage |-> stage, data |-> in.data,
                  metadata |-> in.metadata,
                  new_id |-> GenerateCheckpointId(stage, <<sec, tick + 1>>, in.data)]
    /\ IF GetLatestCheckpointId(registry, Some(stage)).raised
       THEN /\ ret' = [raised |-> TRUE, path |-> NoneVal]
            /\ snap' = NoneVal
            /\ savesOnly' = FALSE
            /\ UNCHANGED <<tick, pc, cur>>
       ELSE /\ tick' = tick + 1
            /\ cur' = NewCheckpoint(stage, in, <<sec, tick + 1>>, registry)
            /\ pc' = "save_backup"
            /\ ret' = NoneVal
            /\ snap' = Snapshot
            /\ UNCHANGED savesOnly
    /\ UNCHANGED <<stages, sec, live, backup, registry, regDisk, saved, tampers>>
    /\ UNCHANGED second

\* line 46 when shutil.copy2 raises OSError: the exception leaves
\* save_checkpoint before anything else is written
SaveBackupFails ==
    /\ pc = "save_backup"
    /\ GlobLive(live, Some(cur.checkpoint.stage)) # {}
    /\ tampers < MaxTampers
    /\ tampers' = tampers + 1
    /\ pc' = "idle"
    /\ cur' = NoneVal
    /\ ret' = [raised |-> TRUE, path |-> NoneVal]
    /\ savesOnly' = FALSE
    /\ UNCHANGED <<stages, sec, tick, live, backup, registry, regDisk, lastOp,
                   saved, snap>>
    /\ UNCHANGED second

\* line 46 with the _update_registry of line 53 moved in front of the write
SaveBackupAndRegister ==
    /\ pc = "save_backup"
    /\ backup' = BackupPreviousCheckpoint(live, backup, Some(cur.checkpoint.stage))
    /\ registry' = (cur.checkpoint.checkpoint_id :>
                       [file |-> cur.checkpoint_file, stage |-> cur.checkpoint.stage,
                        timestamp |-> <<sec, tick>>]) @@ registry
    /\ regDisk' = SaveRegistry(registry')
    /\ pc' = "save_write"
    /\ UNCHANGED <<stages, sec, tick, live, cur, lastOp,
                   ret, saved, snap, tampers,
                   savesOnly>>
    /\ UNCHANGED second

\* line 46
SaveBackup ==
    /\ pc = "save_backup"
    /\ backup' = BackupPreviousCheckpoint(live, backup, Some(cur.checkpoint.stage))
    /\ pc' = "save_write"
    /\ UNCHANGED <<stages, sec, tick, live, registry, regDisk, cur, lastOp,
                   ret, saved, snap, tampers,
                   savesOnly>>
    /\ UNCHANGED second

\* lines 49-53 with the OSError of the write swallowed: the registry is
\* updated whether or not the file was written
SaveWriteThenRegister(ok, truncated) ==
    /\ pc = "save_write"
    /\ ok \/ tampers < MaxTampers
    /\ tampers' = IF ok THEN tampers ELSE tampers + 1
    /\ tick' = tick + 1
    /\ live' = IF ok
               THEN (cur.checkpoint_file :>
                       [doc |-> JsonDump(cur.checkpoint, cur.checksum),
                        mtime |-> tick + 1]) @@ live
               ELSE IF truncated
               THEN (cur.checkpoint_file :>
                       [doc |-> Garbage, mtime |-> tick + 1]) @@ live
               ELSE live
    /\ pc' = "save_register"
    /\ savesOnly' = (savesOnly /\ ok)
    /\ UNCHANGED <<stages, sec, backup, registry, regDisk, cur, ret, lastOp,
                   saved, snap>>
    /\ UNCHANGED second

\* lines 49-50; open(..., 'w') or the write may raise OSError, which leaves
\* the directory as it was or the file truncated
SaveWrite(ok, truncated) ==
    /\ pc = "save_write"
    /\ ok \/ tampers < MaxTampers
    /\ tampers' = IF ok THEN tampers ELSE tampers + 1
    /\ tick' = tick + 1
    /\ IF ok
       THEN /\ live' = (cur.checkpoint_file :>
                          [doc |-> JsonDump(cur.checkpoint, cur.checksum),
                           mtime |-> tick + 1]) @@ live
            /\ pc' = "save_register"
            /\ UNCHANGED <<cur, ret>>
       ELSE /\ live' = IF truncated
                       THEN (cur.checkpoint_file :>
                               [doc |-> Garbage, mtime |-> tick + 1]) @@ live
                       ELSE live
            /\ pc' = "idle"
            /\ cur' = NoneVal
            /\ ret' = [raised |-> TRUE, path |-> NoneVal]
    /\ savesOnly' = (savesOnly /\ ok)
    /\ UNCHANGED <<stages, sec, backup, registry, regDisk, lastOp, saved, snap>>
    /\ UNCHANGED second

\* _update_registry and _save_registry
UpdateRegistry(reg, checkpoint_id, checkpoint_file, stage, now) ==
    (checkpoint_id :> [file |-> checkpoint_file, stage |-> stage,
                       timestamp |-> now]) @@ reg

\* lines 53-55
SaveRegister ==
    /\ pc = "save_register"
    /\ tick' = tick + 1
    /\ registry' = UpdateRegistry(registry, cur.checkpoint.checkpoint_id,
                                  cur.checkpoint_file, cur.checkpoint.stage,
                                  <<sec, tick + 1>>)
    /\ regDisk' = SaveRegistry(registry')
    /\ pc' = "idle"
    /\ cur' = NoneVal
    /\ ret' = [raised |-> FALSE, path |-> Some(cur.checkpoint_file)]
    /\ saved' = Append(saved, [id |-> cur.checkpoint.checkpoint_id,
                               stage |-> cur.checkpoint.stage,
                               data |-> cur.checkpoint.data,
                               file |-> cur.checkpoint_file,
                               doc |-> JsonDump(cur.checkpoint, cur.checksum)])
    /\ UNCHANGED <<stages, sec, live, backup, lastOp, snap, tampers,
                   savesOnly>>
    /\ UNCHANGED second

----------------------------------------------------------------------------
(* load_checkpoint(stage, checkpoint_id) *)

\* the checkpoint ids a caller may hold: those of the successful saves
KnownIds == {saved[i].id : i \in 1..Len(saved)}

OptStages == {NoneVal} \cup {Some(s) : s \in stages}
OptIds == {NoneVal} \cup {Some(i) : i \in KnownIds}

Load(stage, id) ==
    /\ Idle
    /\ LET r == LoadCheckpoint(live, backup, registry, stage, id, 1)
       IN /\ live' = r.live
          /\ ret' = [raised |-> r.raised, ret |-> r.ret, reads |-> r.reads,
                     restores |-> r.restores]
    /\ lastOp' = [op |-> "load"]
    /\ snap' = NoneVal
    /\ UNCHANGED <<stages, sec, tick, backup, registry, regDisk, pc, cur,
                   saved, tampers>>
    /\ savesOnly' = FALSE
    /\ UNCHANGED second

----------------------------------------------------------------------------
(* rollback_to_checkpoint(checkpoint_id) *)

\* lines 159-162: the registry without the entries of the stage that are
\* newer than the target
DropNewer(reg, stage, timestamp) ==
    LET keep == {i \in DOMAIN reg :
                   ~(reg[i].stage = stage /\ TsGreater(reg[i].timestamp, timestamp))}
    IN [i \in keep |-> reg[i]]

\* lines 143-153: the target is looked up and verified by loading it
RollbackBegin(id) ==
    /\ Idle
    /\ tick < MaxTick
    /\ lastOp' = [op |-> "rollback", id |-> id]
    /\ snap' = Snapshot
    /\ IF id \notin DOMAIN registry
       THEN /\ ret' = [raised |-> FALSE, ok |-> FALSE]
            /\ UNCHANGED <<live, pc, cur>>
       ELSE LET r == LoadCheckpoint(live, backup, registry, NoneVal, Some(id), 1)
            IN /\ live' = r.live
               /\ IF r.raised \/ r.ret = NoneVal
                  THEN /\ ret' = [raised |-> r.raised, ok |-> FALSE]
                       /\ UNCHANGED <<pc, cur>>
                  ELSE /\ ret' = NoneVal
                       /\ pc' = "rollback_backup"
                       /\ cur' = [checkpoint_id |-> id,
                                  checkpoint_info |-> registry[id]]
    /\ UNCHANGED <<stages, sec, tick, backup, registry, regDisk, saved, tampers>>
    /\ savesOnly' = FALSE
    /\ UNCHANGED second

\* line 156
RollbackBackup ==
    /\ pc = "rollback_backup"
    /\ backup' = BackupPreviousCheckpoint(live, backup, Some(cur.checkpoint_info.stage))
    /\ pc' = "rollback_registry"
    /\ UNCHANGED <<stages, sec, tick, live, registry, regDisk, cur, lastOp,
                   ret, saved, snap, tampers,
                   savesOnly>>
    /\ UNCHANGED second

\* lines 159-165; the clock has moved on when the registry file is rewritten
RollbackRegistry ==
    /\ pc = "rollback_registry"
    /\ registry' = DropNewer(registry, cur.checkpoint_info.stage,
                             cur.checkpoint_info.timestamp)
    /\ regDisk' = SaveRegistry(registry')
    /\ pc' = "idle"
    /\ cur' = NoneVal
    /\ ret' = [raised |-> FALSE, ok |-> TRUE]
    /\ tick' = tick + 1
    /\ UNCHANGED <<stages, sec, live, backup, lastOp, saved, snap, tampers,
                   savesOnly>>
    /\ UNCHANGED second

----------------------------------------------------------------------------
(* prune_old_checkpoints(max_per_stage) *)

MaxPerStageValues == {0, 1}

\* sorted(files, key=st_mtime, reverse=True) of the set F of live names
RECURSIVE SortedByMtimeDesc(_, _)
SortedByMtimeDesc(lv, F) ==
    IF F = {} THEN <<>>
    ELSE LET f == MaxByMtime(lv, F)
         IN <<f>> \o SortedByMtimeDesc(lv, F \ {f})

\* sorted_files[max_per_stage:]
DropFirst(sq, k) == IF Len(sq) <= k THEN <<>> ELSE SubSeq(sq, k + 1, Len(sq))

\* lines 200-207: the key under which a file is grouped, name.split('_')[0]
GroupKey(f) == f.stage[1]

\* the files_to_remove of the groups in the order groups of the keys
RECURSIVE FilesToRemove(_, _, _)
FilesToRemove(lv, groups, k) ==
    IF groups = <<>> THEN <<>>
    ELSE DropFirst(SortedByMtimeDesc(lv, {f \in DOMAIN lv : GroupKey(f) = Head(groups)}), k)
         \o FilesToRemove(lv, Tail(groups), k)

\* the orders in which stage_files.items() may list the keys: glob order
GroupOrders(lv) ==
    LET K == {GroupKey(f) : f \in DOMAIN lv}
    IN {o \in [1..Cardinality(K) -> K] : \A a, b \in DOMAIN o : o[a] = o[b] => a = b}

\* _remove_from_registry(checkpoint_file)
RemoveFromRegistry(reg, file) ==
    [i \in {j \in DOMAIN reg : reg[j].file # file} |-> reg[i]]

\* lines 197-212
PruneBegin(k) ==
    /\ Idle
    /\ lastOp' = [op |-> "prune", max_per_stage |-> k]
    /\ snap' = Snapshot
    /\ \E o \in GroupOrders(live) :
         LET todo == FilesToRemove(live, o, k)
         IN /\ tick + Len(todo) <= MaxTick
            /\ IF todo = <<>>
               THEN /\ ret' = [done |-> TRUE]
                    /\ UNCHANGED <<pc, cur>>
               ELSE /\ ret' = NoneVal
                    /\ pc' = "prune_move"
                    /\ cur' = [files_to_remove |-> todo]
    /\ UNCHANGED <<stages, sec, tick, live, backup, registry, regDisk, saved, tampers>>
    /\ savesOnly' = FALSE
    /\ UNCHANGED second

\* lines 216-217: shutil.move(file, backup_dir / f"pruned_{file.name}")
PruneMove ==
    /\ pc = "prune_move"
    /\ LET file == Head(cur.files_to_remove)
       IN /\ backup' = ([prefix |-> "pruned", name |-> file] :> live[file]) @@ backup
          /\ live' = [g \in DOMAIN live \ {file} |-> live[g]]
    /\ pc' = "prune_remove"
    /\ UNCHANGED <<stages, sec, tick, registry, regDisk, cur, lastOp, ret,
                   saved, snap, tampers,
                   savesOnly>>
    /\ UNCHANGED second

\* line 220; the clock has moved on when the registry file is rewritten
PruneRemove ==
    /\ pc = "prune_remove"
    /\ tick' = tick + 1
    /\ registry' = RemoveFromRegistry(registry, Head(cur.files_to_remove))
    /\ regDisk' = SaveRegistry(registry')
    /\ IF Tail(cur.files_to_remove) = <<>>
       THEN /\ pc' = "idle"
            /\ cur' = NoneVal
            /\ ret' = [done |-> TRUE]
       ELSE /\ pc' = "prune_move"
            /\ cur' = [files_to_remove |-> Tail(cur.files_to_remove)]
            /\ UNCHANGED ret
    /\ UNCHANGED <<stages, sec, live, backup, lastOp, saved, snap, tampers,
                   savesOnly>>
    /\ UNCHANGED second

----------------------------------------------------------------------------
(* verify_all_checkpoints() *)

\* lines 103-122 without the comparison of line 116: a file that parses
\* and has a checksum counts as valid
FileValidParsed(lv, f) == lv[f].doc.parsable

\* lines 103-122: the file parses, has a checksum and the checksum matches
FileValid(lv, f) == lv[f].doc.parsable /\ lv[f].doc.checksum = CalculateChecksum(lv[f].doc)

\* checkpoint_dir.glob("*.json") without the registry file, as a list; glob
\* promises no order, a fixed one is taken
RECURSIVE GlobOrder(_)
GlobOrder(F) ==
    IF F = {} THEN <<>>
    ELSE LET f == CHOOSE x \in F : TRUE
         IN <<f>> \o GlobOrder(F \ {f})

\* the two lists built by the loop of lines 99-122
VerifyAllCheckpoints(lv) ==
    LET Valid(f) == FileValid(lv, f)
        Invalid(f) == ~FileValid(lv, f)
    IN [valid_files |-> SelectSeq(GlobOrder(DOMAIN lv), Valid),
        invalid_files |-> SelectSeq(GlobOrder(DOMAIN lv), Invalid)]

\* verify_all_checkpoints that puts every valid file it finds into the
\* registry under the id it carries
VerifyAllAdopt ==
    /\ Idle
    /\ lastOp' = [op |-> "verify"]
    /\ snap' = NoneVal
    /\ ret' = VerifyAllCheckpoints(live)
    /\ registry' =
         [i \in DOMAIN registry \cup
                {live[f].doc.checkpoint_id : f \in {g \in DOMAIN live : FileValid(live, g)}} |->
            IF i \in DOMAIN registry THEN registry[i]
            ELSE LET f == CHOOSE g \in DOMAIN live :
                            FileValid(live, g) /\ live[g].doc.checkpoint_id = i
                 IN [file |-> f, stage |-> live[f].doc.stage,
                     timestamp |-> live[f].doc.timestamp]]
    /\ regDisk' = IF registry' = registry THEN regDisk ELSE SaveRegistry(registry')
    /\ UNCHANGED <<stages, sec, tick, live, backup, pc, cur, saved, tampers>>
    /\ savesOnly' = FALSE
    /\ UNCHANGED second

VerifyAll ==
    /\ Idle
    /\ lastOp' = [op |-> "verify"]
    /\ snap' = NoneVal
    /\ ret' = VerifyAllCheckpoints(live)
    /\ UNCHANGED <<stages, sec, tick, live, backup, registry, regDisk, pc, cur,
                   saved, tampers>>
    /\ savesOnly' = FALSE
    /\ UNCHANGED second

----------------------------------------------------------------------------
(* get_latest_checkpoint_id(stage) and get_stage_status(stage) *)

GetLatest(stage) ==
    /\ Idle
    /\ lastOp' = [op |-> "latest", stage |-> stage]
    /\ snap' = NoneVal
    /\ LET r == GetLatestCheckpointId(registry, stage)
       IN ret' = [raised |-> r.raised, ret |-> r.ret]
    /\ UNCHANGED <<stages, sec, tick, live, backup, registry, regDisk, pc, cur,
                   saved, tampers>>
    /\ savesOnly' = FALSE
    /\ UNCHANGED second

\* lines 169-193: the dict returned for the chain c of the stage
StageStatus(c) ==
    IF c.chain = <<>>
    THEN [raised |-> FALSE, status |-> "not_started", checkpoint_count |-> 0,
          last_updated |-> NoneVal, chain_complete |-> TRUE, chain_length |-> 0]
    ELSE [raised |-> FALSE, status |-> "in_progress",
          checkpoint_count |-> Len(c.chain),
          last_updated |-> Some(c.chain[Len(c.chain)].timestamp),
          chain_complete |-> ChainComplete(c.chain),
          chain_length |-> Len(c.chain)]

\* an exception of get_chain_of_checkpoints leaves get_stage_status
GetStageStatus(stage) ==
    /\ Idle
    /\ lastOp' = [op |-> "status", stage |-> stage]
    /\ snap' = NoneVal
    /\ LET c == GetChainOfCheckpoints(live, backup, registry, stage)
       IN /\ live' = c.live
          /\ ret' = IF c.raised
                    THEN [raised |-> TRUE, status |-> "", checkpoint_count |-> 0,
                          last_updated |-> NoneVal, chain_complete |-> FALSE,
                          chain_length |-> 0]
                    ELSE StageStatus(c)
    /\ UNCHANGED <<stages, sec, tick, backup, registry, regDisk, pc, cur,
                   saved, tampers>>
    /\ savesOnly' = FALSE
    /\ UNCHANGED second

----------------------------------------------------------------------------
(* The environment: a checkpoint file is modified behind the store's back *)

\* the data or the metadata section of a live file is changed, which
\* also sets the file's modification time
Tamper(f, section) ==
    /\ Idle
    /\ tampers < MaxTampers
    /\ tick < MaxTick
    /\ f \in DOMAIN live
    /\ live[f].doc.parsable
    /\ tick' = tick + 1
    /\ tampers' = tampers + 1
    /\ live' = [live EXCEPT ![f] =
                  [doc |-> IF section = "data"
                           THEN [live[f].doc EXCEPT !.data = TamperedData]
                           ELSE [live[f].doc EXCEPT !.metadata = "tampered"],
                   mtime |-> tick + 1]]
    /\ lastOp' = [op |-> "tamper"]
    /\ ret' = NoneVal
    /\ snap' = NoneVal
    /\ UNCHANGED <<stages, sec, backup, registry, regDisk, pc, cur, saved>>
    /\ savesOnly' = FALSE
    /\ UNCHANGED second

\* a live file is deleted
Delete(f) ==
    /\ Idle
    /\ tampers < MaxTampers
    /\ f \in DOMAIN live
    /\ tampers' = tampers + 1
    /\ live' = [g \in DOMAIN live \ {f} |-> live[g]]
    /\ lastOp' = [op |-> "tamper"]
    /\ ret' = NoneVal
    /\ snap' = NoneVal
    /\ UNCHANGED <<stages, sec, tick, backup, registry, regDisk, pc, cur, saved>>
    /\ savesOnly' = FALSE
    /\ UNCHANGED second

\* the process is killed inside save_checkpoint, rollback_to_checkpoint or
\* prune_old_checkpoints, between two steps or (torn) inside _save_registry
\* after open(..., 'w') truncated the file; the store is then constructed
\* again and __init__ loads the registry file
Crash(torn) ==
    /\ ~Idle
    /\ torn => pc \in {"save_register", "rollback_registry", "prune_remove"}
    /\ tampers < MaxTampers
    /\ tampers' = tampers + 1
    /\ regDisk' = IF torn THEN TornFile ELSE regDisk
    /\ registry' = LoadRegistry(regDisk')
    /\ pc' = "idle"
    /\ cur' = NoneVal
    /\ lastOp' = [op |-> "restart"]
    /\ ret' = NoneVal
    /\ savesOnly' = FALSE
    /\ UNCHANGED <<stages, sec, tick, live, backup, saved, snap>>
    /\ UNCHANGED second

----------------------------------------------------------------------------
(* A second CheckpointManager(base_dir) in another process, on the same
   directory; it runs save_checkpoint step by step like the first *)

others == <<stages, sec, pc, cur, lastOp, ret, snap, tampers, registry>>

\* __init__, lines 11-22: the registry file is read once, here
SecondInit ==
    /\ second.pc = "none"
    /\ second' = [NotConstructed EXCEPT !.pc = "idle",
                                        !.registry = LoadRegistry(regDisk)]
    /\ savesOnly' = FALSE
    /\ UNCHANGED <<others, tick, live, backup, regDisk, saved>>

\* lines 27-43
SecondSaveBegin(stage, in) ==
    /\ second.pc = "idle"
    /\ tick + 3 <= MaxTick
    /\ IF GetLatestCheckpointId(second.registry, Some(stage)).raised
       THEN /\ second' = [second EXCEPT !.ret = [raised |-> TRUE, path |-> NoneVal]]
            /\ UNCHANGED tick
       ELSE /\ tick' = tick + 1
            /\ second' = [second EXCEPT
                             !.pc = "save_backup",
                             !.cur = NewCheckpoint(stage, in, <<sec, tick + 1>>,
                                                   second.registry),
                             !.ret = NoneVal,
                             !.before = regDisk.entries]
    /\ savesOnly' = FALSE
    /\ UNCHANGED <<others, live, backup, regDisk, saved>>

\* line 46
SecondSaveBackup ==
    /\ second.pc = "save_backup"
    /\ backup' = BackupPreviousCheckpoint(live, backup,
                                          Some(second.cur.checkpoint.stage))
    /\ second' = [second EXCEPT !.pc = "save_write"]
    /\ UNCHANGED <<others, tick, live, regDisk, saved, savesOnly>>

\* lines 49-50
SecondSaveWrite ==
    /\ second.pc = "save_write"
    /\ tick' = tick + 1
    /\ live' = (second.cur.checkpoint_file :>
                   [doc |-> JsonDump(second.cur.checkpoint, second.cur.checksum),
                    mtime |-> tick + 1]) @@ live
    /\ second' = [second EXCEPT !.pc = "save_register"]
    /\ UNCHANGED <<others, backup, regDisk, saved, savesOnly>>

\* lines 53-55: _update_registry on this instance's self.registry, and
\* _save_registry writes that dict over the registry file
SecondSaveRegister ==
    /\ second.pc = "save_register"
    /\ tick' = tick + 1
    /\ LET c == second.cur.checkpoint
           reg == UpdateRegistry(second.registry, c.checkpoint_id,
                                 second.cur.checkpoint_file, c.stage,
                                 <<sec, tick + 1>>)
       IN /\ regDisk' = SaveRegistry(reg)
          /\ second' = [second EXCEPT
                           !.pc = "idle", !.cur = NoneVal, !.registry = reg,
                           !.ret = [raised |-> FALSE,
                                    path |-> Some(second.cur.checkpoint_file)],
                           !.last = Some([id |-> c.checkpoint_id, stage |-> c.stage])]
          /\ saved' = Append(saved, [id |-> c.checkpoint_id, stage |-> c.stage,
                                     data |-> c.data,
                                     file |-> second.cur.checkpoint_file,
                                     doc |-> JsonDump(c, second.cur.checksum)])
    /\ UNCHANGED <<others, live, backup, savesOnly>>

----------------------------------------------------------------------------

\* the operations of the store, without faults
NextOps ==
    \/ Tick
    \/ \E s \in stages, in \in SaveInputs : SaveBegin(s, in)
    \/ SaveBackup
    \/ SaveWrite(TRUE, FALSE)
    \/ SaveRegister
    \/ \E s \in OptStages, i \in OptIds : Load(s, i)
    \/ \E i \in KnownIds : RollbackBegin(i)
    \/ RollbackBackup
    \/ RollbackRegistry
    \/ \E k \in MaxPerStageValues : PruneBegin(k)
    \/ PruneMove
    \/ PruneRemove
    \/ VerifyAll
    \/ \E s \in OptStages : GetLatest(s)
    \/ \E s \in stages : GetStageStatus(s)

\* the operations, failing writes and files modified behind the store's back
Next ==
    \/ NextOps
    \/ SaveBackupFails
    \/ \E tr \in BOOLEAN : SaveWrite(FALSE, tr)
    \/ \E f \in DOMAIN live, sc \in {"data", "metadata"} : Tamper(f, sc)
    \/ \E f \in DOMAIN live : Delete(f)
    \/ \E torn \in BOOLEAN : Crash(torn)

Spec == Init /\ [][Next]_vars

SpecOps == Init /\ [][NextOps]_vars

\* two processes saving into the same directory
NextRace ==
    \/ Tick
    \/ \E s \in stages, in \in SaveInputs : SaveBegin(s, in)
    \/ SaveBackup
    \/ SaveWrite(TRUE, FALSE)
    \/ SaveRegister
    \/ SecondInit
    \/ \E s \in stages, in \in SaveInputs : SecondSaveBegin(s, in)
    \/ SecondSaveBackup
    \/ SecondSaveWrite
    \/ SecondSaveRegister

SpecRace == Init /\ [][NextRace]_vars

----------------------------------------------------------------------------
(* Claims *)

SaveSucceeded == Idle /\ lastOp.op = "save" /\ ~ret.raised
LastSaved == saved[Len(saved)]
LoadById(id) == LoadCheckpoint(live, backup, registry, NoneVal, Some(id), 1)
LoadByStage(stage) == LoadCheckpoint(live, backup, registry, Some(stage), NoneVal, 1)
ReturnsData(r, d) == ~r.raised /\ r.ret # NoneVal /\ r.ret[1].data = d

LoadReturned == Idle /\ lastOp.op = "load" /\ ~ret.raised /\ ret.ret # NoneVal
SavedDocs == {saved[i].doc : i \in 1..Len(saved)}

\* C2: every record that Load returns carries a checksum equal to the one
\* recomputed over the rest of the record, and is a document that a Save
\* wrote: a file whose data or metadata was modified is never returned.
C2_LoadVerified ==
    LoadReturned =>
        /\ ret.ret[1].checksum = CalculateChecksum(ret.ret[1])
        /\ ret.ret[1] \in SavedDocs

\* a Load that met a modified file, restored a backup and returned a record
C2_Witness ==
    /\ LoadReturned
    /\ ret.restores > 0
    /\ \E f \in DOMAIN live : live[f].doc.parsable /\ live[f].doc \notin SavedDocs

\* C3: a Load performs at most one restore and at most two reads of the
\* checkpoint file, and then returns.
C3_BoundedRecovery ==
    (Idle /\ lastOp.op = "load") =>
        /\ ~ret.raised
        /\ ret.reads <= 2
        /\ ret.restores <= 1

\* C4: after N >= 1 saves of one stage and nothing else, the chain of the
\* stage is built, has exactly the N checkpoints in creation order, starts
\* with a null previous_checkpoint, links each later checkpoint to the one
\* before it, and is complete.
C4_ChainContinuity ==
    (Idle /\ savesOnly /\ Len(saved) >= 1
          /\ \A i \in 1..Len(saved) : saved[i].stage = saved[1].stage) =>
        LET c == GetChainOfCheckpoints(live, backup, registry, saved[1].stage)
        IN /\ ~c.raised
           /\ ~c.diverges
           /\ Len(c.chain) = Len(saved)
           /\ \A i \in 1..Len(saved) : c.chain[i].checkpoint_id = saved[i].id
           /\ c.chain[1].previous_checkpoint = NoneVal
           /\ ChainComplete(c.chain)

RollbackSucceeded == Idle /\ lastOp.op = "rollback" /\ ~ret.raised /\ ret.ok
SavedWithId(id) == CHOOSE r \in {saved[i] : i \in 1..Len(saved)} : r.id = id

\* C5: after a successful RollbackTo(X), X is the latest registered
\* checkpoint of its stage (the predecessor the next Save records) and
\* Load(stage) returns the data of X.
C5_RollbackExactness ==
    RollbackSucceeded =>
        LET x == SavedWithId(lastOp.id)
            latest == GetLatestCheckpointId(registry, Some(x.stage))
        IN /\ ~latest.raised
           /\ latest.ret = Some(x.id)
           /\ ReturnsData(LoadByStage(x.stage), x.doc.data)

\* C6: a RollbackTo that returns false leaves the registry in memory and on
\* disk, the live checkpoint files and the backup area as they were.
C6_FailedRollbackFrame ==
    [][((\E i \in KnownIds : RollbackBegin(i)) /\ pc' = "idle")
         => UNCHANGED <<registry, regDisk, live, backup>>]_vars

PruneDone == Idle /\ lastOp.op = "prune"
IdsOfStage(reg, stage) == {i \in DOMAIN reg : reg[i].stage = stage}
Min(a, b) == IF a <= b THEN a ELSE b

\* C7: after Prune(k), of the n checkpoints a stage had registered exactly
\* min(n, k) remain registered, they are the newest ones, and every other
\* one is out of the registry and of the live area and lies unchanged in
\* the backup area under pruned_<file name>.
C7_PruningRetention ==
    PruneDone =>
        \A s \in stages :
            LET before == IdsOfStage(snap.registry, s)
                after == IdsOfStage(registry, s)
                gone == before \ after
            IN /\ after \subseteq before
               /\ Cardinality(after) = Min(Cardinality(before), lastOp.max_per_stage)
               /\ \A a \in after, g \in gone :
                     TsGreater(snap.registry[a].timestamp, snap.registry[g].timestamp)
               /\ \A g \in gone :
                     LET f == snap.registry[g].file
                         p == [prefix |-> "pruned", name |-> f]
                     IN /\ f \notin DOMAIN live
                        /\ p \in DOMAIN backup
                        /\ backup[p] = snap.live[f]

HasCopy(doc) ==
    \/ \E f \in DOMAIN live : live[f].doc = doc
    \/ \E b \in DOMAIN backup : backup[b].doc = doc

\* C8: for every checkpoint a successful Save has written, a byte-identical
\* copy of its file is in the live area or in the backup area.
C8_BytesNeverDestroyed == \A i \in 1..Len(saved) : HasCopy(saved[i].doc)

FilesOfStage(stage) == {f \in DOMAIN live : f.stage = stage}

\* C9: when Save is about to write its file and the stage has a live file,
\* the backup area holds a verbatim copy of the stage's latest live file as
\* backup_<file name>; so the file Save is about to overwrite, if any, has
\* a copy in the backup area.
C9_BackupBeforeWrite ==
    pc = "save_write" =>
        LET F == FilesOfStage(cur.checkpoint.stage)
            latest == MaxByMtime(live, F)
            b == [prefix |-> "backup", name |-> latest]
        IN /\ F # {} => (b \in DOMAIN backup /\ backup[b] = live[latest])
           /\ cur.checkpoint_file \in DOMAIN live =>
                \E c \in DOMAIN backup : backup[c] = live[cur.checkpoint_file]

FullyWritten(lv, f, id) ==
    f \in DOMAIN lv /\ lv[f].doc.parsable /\ lv[f].doc.checkpoint_id = id
        /\ lv[f].doc.checksum = CalculateChecksum(lv[f].doc)

\* C10: whenever the registry, in memory or on disk, gains an entry, the
\* file the entry names was completely written before that step; and when
\* the file write of a Save fails, the registry has no entry for the new id.
C10_FileBeforeRegistry ==
    [][/\ \A i \in (DOMAIN registry' \cup DOMAIN regDisk'.entries)
                      \ (DOMAIN registry \cap DOMAIN regDisk.entries) :
            /\ i \in DOMAIN registry' /\ i \in DOMAIN regDisk'.entries
            /\ FullyWritten(live, registry'[i].file, i)
            /\ FullyWritten(live', regDisk'.entries[i].file, i)
       /\ (pc = "save_write" /\ pc' = "idle") =>
            (lastOp.new_id \notin DOMAIN registry' \cup DOMAIN regDisk'.entries)]_vars

\* a Save whose write failed and left a truncated file behind, next to an
\* earlier registered checkpoint
C10_Witness ==
    /\ Idle /\ lastOp.op = "save" /\ ret.raised
    /\ \E f \in DOMAIN live : ~live[f].doc.parsable
    /\ registry # <<>>

----------------------------------------------------------------------------

\* what a restart finds on disk: the content of every live checkpoint file
\* and the registry file, as the file each id is registered with
DiskView(lv, file) ==
    [files |-> [f \in DOMAIN lv |-> lv[f].doc],
     state |-> file.state,
     entries |-> [i \in DOMAIN file.entries |-> file.entries[i].file]]

Without(lv, F) == [f \in DOMAIN lv \ F |-> lv[f]]

\* the disk once the operation in progress has run to its end
DiskViewAfter ==
    IF pc \in {"save_backup", "save_write", "save_register"}
    THEN DiskView(
           (cur.checkpoint_file :>
              [doc |-> JsonDump(cur.checkpoint, cur.checksum), mtime |-> 0]) @@ live,
           SaveRegistry(UpdateRegistry(registry, cur.checkpoint.checkpoint_id,
                                       cur.checkpoint_file, cur.checkpoint.stage,
                                       <<0, 0>>)))
    ELSE IF pc \in {"rollback_backup", "rollback_registry"}
    THEN DiskView(live, SaveRegistry(DropNewer(registry, cur.checkpoint_info.stage,
                                               cur.checkpoint_info.timestamp)))
    ELSE LET F == {cur.files_to_remove[n] : n \in 1..Len(cur.files_to_remove)}
         IN DiskView(Without(live, F),
                     SaveRegistry([i \in {j \in DOMAIN registry :
                                            registry[j].file \notin F} |-> registry[i]]))

\* C11: at every point inside Save, RollbackTo or Prune at which the process
\* can be interrupted, the registry file together with the live checkpoint
\* files is the state before the operation or the state after it.
C11_CrashAtomicity ==
    ~Idle => \/ DiskView(live, regDisk) = DiskView(snap.live, snap.regDisk)
             \/ DiskView(live, regDisk) = DiskViewAfter

\* C12: the registry file is replaced atomically: whatever happens during a
\* registry mutation, the file on disk is never an empty or truncated
\* document.
C12_AtomicRegistryPersistence == regDisk.state # "torn"

\* the ids a caller may ask for: those of the successful saves and those
\* found in the checkpoint files on disk
AskableIds == KnownIds \cup {live[f].doc.checkpoint_id : f \in DOMAIN live}

NotFound(r, lv) == ~r.raised /\ r.ret = NoneVal /\ r.reads = 0 /\ r.live = lv

\* C13: when the registry file is absent or unparsable, the store starts
\* with an empty registry, and Load reports not-found for every stage and
\* every id, whatever checkpoint files are on disk; no entry is inferred
\* from the checkpoint directory.
C13_DegradedStart ==
    (Idle /\ regDisk.state # "ok") =>
        /\ registry = <<>>
        /\ LoadRegistry(regDisk) = <<>>
        /\ \A s \in OptStages, i \in {NoneVal} \cup {Some(x) : x \in AskableIds} :
              NotFound(LoadCheckpoint(live, backup, registry, s, i, 1), live)

\* the store restarted on a truncated registry file with checkpoint files
\* of a stage on disk
C13_Witness ==
    /\ Idle /\ lastOp.op = "restart"
    /\ regDisk.state = "torn"
    /\ \E f \in DOMAIN live : f.stage \in stages /\ FileValid(live, f)

Grown(old, new) == DOMAIN new \ DOMAIN old

\* C14: the registry, in memory and on disk, gains an id only in the last
\* step of a successful Save, and then exactly the id of the checkpoint
\* that Save wrote; every record Load returns and every id Latest returns
\* is registered, so a file that is on disk without a registry entry is
\* never returned.
C14_OrphansNeverAdopted ==
    [][/\ \A g \in {Grown(registry, registry'), Grown(regDisk.entries, regDisk'.entries)} :
            g # {} => /\ pc = "save_register" /\ pc' = "idle"
                      /\ ~ret'.raised
                      /\ g = {cur.checkpoint.checkpoint_id}
       /\ (pc' = "idle" /\ lastOp'.op = "load" /\ ~ret'.raised /\ ret'.ret # NoneVal) =>
            /\ ret'.ret[1].checkpoint_id \in DOMAIN registry'
            /\ live'[registry'[ret'.ret[1].checkpoint_id].file].doc = ret'.ret[1]
       /\ (pc' = "idle" /\ lastOp'.op = "latest" /\ ~ret'.raised /\ ret'.ret # NoneVal) =>
            ret'.ret[1] \in DOMAIN registry']_vars

Orphans == {f \in DOMAIN live : FileValid(live, f)
                                 /\ live[f].doc.checkpoint_id \notin DOMAIN registry}

\* a Load that returned a record while a valid checkpoint file of a stage
\* lies in the live area without a registry entry
C14_Witness ==
    /\ LoadReturned
    /\ \E f \in Orphans : f.stage \in stages

SeqToSet(sq) == {sq[n] : n \in 1..Len(sq)}

\* C15: the two lists VerifyAll returns have no file twice, in one list or
\* across both; together they hold exactly the files of the live area and
\* none of the backup area; a file is in the valid list iff it parses and
\* its stored checksum equals the one recomputed over the rest of the
\* record, whether or not the registry lists it.
C15_VerifyAllPartition ==
    (Idle /\ lastOp.op = "verify") =>
        LET all == ret.valid_files \o ret.invalid_files
        IN /\ \A a, b \in 1..Len(all) : all[a] = all[b] => a = b
           /\ SeqToSet(all) = DOMAIN live
           /\ \A f \in DOMAIN live :
                 f \in SeqToSet(ret.valid_files) <=>
                   (live[f].doc.parsable
                      /\ live[f].doc.checksum = CalculateChecksum(live[f].doc))

\* VerifyAll on a live area with a modified file, a valid file that the
\* registry does not list, and a non-empty backup area
C15_Witness ==
    /\ Idle /\ lastOp.op = "verify"
    /\ ret.invalid_files # <<>>
    /\ \E n \in 1..Len(ret.valid_files) : ret.valid_files[n] \in Orphans
    /\ backup # <<>>

StageEntries(stage) == {i \in DOMAIN registry : registry[i].stage = stage}

\* the id of the stage's entry with the maximum timestamp
LatestEntry(stage) ==
    CHOOSE i \in StageEntries(stage) :
        \A j \in StageEntries(stage) :
            ~TsGreater(registry[j].timestamp, registry[i].timestamp)

\* C16: GetStageStatus returns without error; it reports not_started with
\* count 0, no last-updated time and chain_complete exactly when the stage
\* has no registry entry, and otherwise in_progress with checkpoint_count
\* the length of the chain built from the stage's latest entry and
\* last_updated the timestamp of the last checkpoint of that chain.
C16_StageStatus ==
    (Idle /\ lastOp.op = "status") =>
        /\ ~ret.raised
        /\ StageEntries(lastOp.stage) = {} <=> ret.status = "not_started"
        /\ ret.status = "not_started" =>
              /\ ret.checkpoint_count = 0
              /\ ret.last_updated = NoneVal
              /\ ret.chain_complete
        /\ StageEntries(lastOp.stage) # {} =>
              LET c == ChainFrom(live, backup, registry,
                                 Some(LatestEntry(lastOp.stage)), <<>>, {})
              IN /\ ret.status = "in_progress"
                 /\ ret.checkpoint_count = Len(c.chain)
                 /\ c.chain # <<>> =>
                       ret.last_updated = Some(c.chain[Len(c.chain)].timestamp)

\* the outcome of load_checkpoint as its caller sees it
Outcome(r) == [raised |-> r.raised, ret |-> r.ret]

\* C17: when the registry has an entry for the requested stage or id and
\* Load returns no record, what the caller gets differs from what it gets
\* when there is no entry (None returned, nothing raised).
C17_DistinctFailures ==
    Idle =>
        \A s \in OptStages, i \in OptIds :
            LET r == LoadCheckpoint(live, backup, registry, s, i, 1)
            IN (FindCheckpoint(registry, s, i) # NoneVal /\ r.ret = NoneVal) =>
                 Outcome(r) # [raised |-> FALSE, ret |-> NoneVal]

\* C18: a Prune leaves every previous_checkpoint link of a registered
\* checkpoint as resolvable as it was when the Prune began.
C18_PruneKeepsChains ==
    (pc \in {"prune_move", "prune_remove"} \/ (Idle /\ lastOp.op = "prune" /\ snap # NoneVal)) =>
        \A i \in DOMAIN registry :
            LET f == registry[i].file
            IN (f \in DOMAIN live /\ FileValid(live, f)
                  /\ live[f].doc.previous_checkpoint # NoneVal) =>
                 (live[f].doc.previous_checkpoint[1] \in DOMAIN snap.registry
                    => live[f].doc.previous_checkpoint[1] \in DOMAIN registry)

\* the case of C18 never arises: no registered checkpoint carries a link
C18_NoLinkExists ==
    \A i \in DOMAIN registry :
        LET f == registry[i].file
        IN (f \in DOMAIN live /\ FileValid(live, f)) =>
             live[f].doc.previous_checkpoint = NoneVal

\* C19: Latest(stage) returns none when the registry has no entry of the
\* stage and otherwise the id of the stage's entry with the maximum
\* timestamp, which is the key of the entry whose file Load(stage) resolves.
C19_Latest ==
    (Idle /\ lastOp.op = "latest" /\ lastOp.stage # NoneVal) =>
        LET stage == lastOp.stage[1]
        IN /\ ~ret.raised
           /\ StageEntries(stage) = {} => ret.ret = NoneVal
           /\ StageEntries(stage) # {} =>
                 /\ ret.ret = Some(LatestEntry(stage))
                 /\ FindCheckpoint(registry, lastOp.stage, NoneVal)
                      = Some(registry[LatestEntry(stage)].file)

\* C20: the checkpoint a Save has written has previous_checkpoint null when
\* the stage had no registry entry as the Save began, and otherwise the id
\* of an entry of the same stage that the registry held as the Save began;
\* from no registered id does the walk along previous_checkpoint come
\* back to an id it has visited.
C20_LinksPointBackward ==
    /\ pc = "save_register" =>
          LET written == live[cur.checkpoint_file].doc
              before == {i \in DOMAIN snap.registry :
                             snap.registry[i].stage = written.stage}
          IN IF before = {}
             THEN written.previous_checkpoint = NoneVal
             ELSE /\ written.previous_checkpoint # NoneVal
                  /\ written.previous_checkpoint[1] \in before
    /\ \A i \in DOMAIN registry :
          ~ChainFrom(live, backup, registry, Some(i), <<>>, {}).diverges

\* a Save has written its file for a stage that was saved before and whose
\* entry has left the registry since
C20_Witness ==
    /\ pc = "save_register"
    /\ live[cur.checkpoint_file].doc.parsable
    /\ \E n \in 1..Len(saved) : saved[n].stage = cur.checkpoint.stage

\* the newest live file, at the start of the operation, of a checkpoint of
\* the stage
LatestFileOf(stage) ==
    LET F == {f \in DOMAIN snap.live : f.stage = stage}
    IN MaxByMtime(snap.live, F)

\* C21: after a successful RollbackTo(X) the registry is the one from before
\* without the entries of X's stage that are strictly newer than X, in
\* memory and in the registry file; the live area is unchanged; the backup
\* area is unchanged except for the copy of the latest file of X's stage.
C21_RollbackFrame ==
    RollbackSucceeded =>
        LET x == snap.registry[lastOp.id]
            gone == {i \in DOMAIN snap.registry :
                        /\ snap.registry[i].stage = x.stage
                        /\ TsGreater(snap.registry[i].timestamp, x.timestamp)}
            copy == [prefix |-> "backup", name |-> LatestFileOf(x.stage)]
        IN /\ registry = [i \in DOMAIN snap.registry \ gone |-> snap.registry[i]]
           /\ regDisk = [state |-> "ok", entries |-> registry]
           /\ live = snap.live
           /\ \/ backup = snap.backup
              \/ /\ \E f \in DOMAIN snap.live : f.stage = x.stage
                 /\ backup = (copy :> snap.live[copy.name]) @@ snap.backup

\* the entries of the stage that are older than entry i, and the newest
\* of them
OlderEntries(stage, i) ==
    {j \in StageEntries(stage) : TsGreater(registry[i].timestamp, registry[j].timestamp)}
Predecessor(stage, i) ==
    CHOOSE j \in OlderEntries(stage, i) :
        \A h \in OlderEntries(stage, i) :
            ~TsGreater(registry[h].timestamp, registry[j].timestamp)

\* every adjacent pair (older, newer) of the stage's registered checkpoints
\* in creation order can be loaded and newer links to older
AdjacentPairsLinked(stage) ==
    \A i \in StageEntries(stage) :
        OlderEntries(stage, i) # {} =>
            /\ ReadVerified(live, registry[i].file)
            /\ ReadVerified(live, registry[Predecessor(stage, i)].file)
            /\ live[registry[i].file].doc.previous_checkpoint
                 = Some(Predecessor(stage, i))

\* C22: GetStageStatus reports chain_complete, and reports it true iff
\* every adjacent pair (older, newer) of the stage's checkpoints in
\* creation order satisfies newer.previous_checkpoint = older.id.
C22_ChainCompleteness ==
    (Idle /\ lastOp.op = "status") =>
        /\ ~ret.raised
        /\ ret.chain_complete <=> AdjacentPairsLinked(lastOp.stage)

\* the files of the checkpoints that a store has registered
RegisteredFiles ==
    {registry[i].file : i \in DOMAIN registry}
        \cup {second.registry[i].file : i \in DOMAIN second.registry}
        \cup {regDisk.entries[i].file : i \in DOMAIN regDisk.entries}

\* C23: the write step of a Save creates a file under a name that no file
\* of the live area has, and leaves the file of every registered
\* checkpoint as it is.
C23_WrittenOnce ==
    [][/\ (pc = "save_write" /\ pc' = "save_register") =>
            cur.checkpoint_file \notin DOMAIN live
       /\ (second.pc = "save_write" /\ second'.pc = "save_register") =>
            second.cur.checkpoint_file \notin DOMAIN live
       /\ ("save_write" \in {pc, second.pc}) =>
            \A f \in RegisteredFiles \cap DOMAIN live :
                f \in DOMAIN live' /\ live'[f].doc = live[f].doc]_vars

\* the backups backup_<name> of checkpoints of the stage
BackupsOf(stage) ==
    {b \in DOMAIN backup : b.prefix = "backup" /\ b.name.stage = stage}

\* C24: RestoreLatest(stage) copies the most recent backup_<name> of the
\* stage into the live area as <name>, with the same content, and returns
\* that path; without a backup of the stage it returns none and changes
\* nothing.
C24_RestoreLatest ==
    Idle =>
        \A s \in stages :
            LET r == RestoreFromBackup(live, backup, Some(s))
                b == MaxByMtime(backup, BackupsOf(s))
            IN IF BackupsOf(s) = {}
               THEN r.path = NoneVal /\ r.live = live
               ELSE /\ r.path = Some(b.name)
                    /\ r.live = (b.name :> backup[b]) @@ live

\* both stores have just finished a Save of the same stage, and each began
\* (the timestamp of the record) before the other registered (the
\* timestamp of the registry entry)
Raced ==
    /\ Idle /\ lastOp.op = "save" /\ ret # NoneVal /\ ~ret.raised
    /\ second.pc = "idle" /\ second.last # NoneVal
    /\ second.ret # NoneVal /\ ~second.ret.raised
    /\ second.last[1].stage = lastOp.stage
    /\ TsGreater(second.registry[second.last[1].id].timestamp,
                 lastOp.new_id.timestamp)
    /\ TsGreater(registry[lastOp.new_id].timestamp,
                 second.last[1].id.timestamp)

\* C25: after two interleaved Saves of one stage by two stores the registry
\* file has the entries of both new checkpoints and every entry it had
\* when either Save began, and the two checkpoints carry the same
\* previous_checkpoint.
C25_RaceForksOnly ==
    Raced =>
        /\ {lastOp.new_id, second.last[1].id} \subseteq DOMAIN regDisk.entries
        /\ DOMAIN snap.regDisk.entries \subseteq DOMAIN regDisk.entries
        /\ DOMAIN second.before \subseteq DOMAIN regDisk.entries
        /\ \A x, y \in {saved[n] : n \in 1..Len(saved)} :
              {x.id, y.id} = {lastOp.new_id, second.last[1].id} =>
                  x.doc.previous_checkpoint = y.doc.previous_checkpoint

\* C26: after Prune(k) a stage that had at most k live checkpoint files
\* has all of them, unchanged, and all of its registry entries.
C26_PrunePerStage ==
    PruneDone =>
        \A s \in stages :
            LET F == {f \in DOMAIN snap.live : f.stage = s}
            IN Cardinality(F) <= lastOp.max_per_stage =>
                 /\ \A f \in F : f \in DOMAIN live /\ live[f] = snap.live[f]
                 /\ \A i \in IdsOfStage(snap.registry, s) :
                       i \in DOMAIN registry /\ registry[i] = snap.registry[i]

\* C27: a record that Load returns for a request with a checkpoint id has
\* that id, with or without a stage in the request.
C27_LoadByIdReturnsId ==
    Idle =>
        \A s \in OptStages, i \in KnownIds :
            LET r == LoadCheckpoint(live, backup, registry, s, Some(i), 1)
            IN (~r.raised /\ r.ret # NoneVal) => r.ret[1].checkpoint_id = i

\* the id of the newest entry that the stage had when the operation began
HeadBefore(stage) ==
    LET E == IdsOfStage(snap.registry, stage)
    IN CHOOSE i \in E :
         \A j \in E : ~TsGreater(snap.registry[j].timestamp, snap.registry[i].timestamp)

\* C28: after Prune(k) with k >= 1 every stage that had a registry entry
\* still has its newest entry, it is still the newest of the stage, and
\* Load(stage) returns the checkpoint it returned before.
C28_PruneKeepsHead ==
    (PruneDone /\ lastOp.max_per_stage >= 1) =>
        \A s \in stages :
            IdsOfStage(snap.registry, s) # {} =>
                /\ HeadBefore(s) \in DOMAIN registry
                /\ StageEntries(s) # {}
                /\ LatestEntry(s) = HeadBefore(s)
                /\ Outcome(LoadByStage(s))
                     = Outcome(LoadCheckpoint(snap.live, snap.backup, snap.registry,
                                              Some(s), NoneVal, 1))

SaveRaised == pc = "idle" /\ lastOp.op = "save" /\ ret # NoneVal /\ ret.raised

\* C29: when a Save ends by raising, the registry in memory and the
\* registry file are what they were before the step that raised and what
\* they were when the Save began, and neither has an entry for the new id;
\* when it raises in the predecessor lookup, the live area and the backup
\* area are unchanged as well.
C29_FailedSaveRegistersNothing ==
    [][SaveRaised' =>
         /\ registry' = registry
         /\ regDisk' = regDisk
         /\ lastOp'.new_id \notin DOMAIN registry' \cup DOMAIN regDisk'.entries
         /\ snap' # NoneVal => registry' = snap'.registry /\ regDisk' = snap'.regDisk
         /\ pc = "idle" => live' = live /\ backup' = backup]_vars

\* a Save that raised in the file write and left a truncated file, in a
\* store whose registry has entries
C29_Witness ==
    /\ SaveRaised
    /\ snap # NoneVal
    /\ live # snap.live
    /\ registry # <<>>

\* the backup files that were written since the operation began
BackupsWritten ==
    {b \in DOMAIN backup : b \notin DOMAIN snap.backup \/ backup[b] # snap.backup[b]}

\* C30: the file that the backup step of a Save or a RollbackTo for stage S
\* copies into the backup area is a file of a checkpoint of S, and the
\* file that RestoreLatest(S) writes into the live area is a copy of a
\* backup of a checkpoint of S.
C30_OneStage ==
    /\ pc = "save_write" =>
          \A b \in BackupsWritten : b.name.stage = cur.checkpoint.stage
    /\ pc = "rollback_registry" =>
          \A b \in BackupsWritten : b.name.stage = cur.checkpoint_info.stage
    /\ Idle =>
          \A s \in stages :
              LET r == RestoreFromBackup(live, backup, Some(s))
              IN r.path # NoneVal =>
                   \E b \in BackupsOf(s) : /\ b.name.sec = r.path[1].sec
                                            /\ backup[b] = r.live[r.path[1]]

====
